---- MODULE Spec2Model ----
(***************************************************************************)
(* The core discrete-event simulation engine dcs::des::engine<RealT>       *)
(* (dcs/des/engine.hpp) as a state machine.                                *)
(*                                                                         *)
(* Simulated time (RealT) is modelled by the integers 0..MaxTime.  Events  *)
(* are the objects created by schedule_event; an event handle              *)
(* (boost::shared_ptr<event>) is the index of the event in evt, 0 is the   *)
(* null handle.  The future event list evt_list_ holds handles.            *)
(*                                                                         *)
(* A sink is user code that runs while an event is being fired.  The       *)
(* engine code between two sink invocations is one atomic step; while the  *)
(* sinks of an event run (phase = "own") they may call the engine          *)
(* operations in any order.  Before the first run (pc = "idle") the client *)
(* connects sinks and enables or disables sources.  MaxCalls bounds the    *)
(* number of calls the client and the sinks make altogether.               *)
(*                                                                         *)
(* Spec is the engine with one user source and no statistic.  SpecToggle   *)
(* has two user sources whose sinks enable and disable them, SpecStats has *)
(* a statistics registry with two statistics, SpecRerun repeats one        *)
(* scripted run and records what each run shows.  SpecAdvance lets the     *)
(* client and the sinks call advance() outside the loop, SpecDrain is the  *)
(* engine under weak fairness of its own steps, with sinks that schedule   *)
(* only before the loop.                                                   *)
(***************************************************************************)
EXTENDS Integers, Sequences, FiniteSets, TLC

\* Bounds of the model.
MaxTime == 2
MaxRuns == 2
MaxCalls == 3
MaxCallsToggle == 5
MaxEventsToggle == 2

Times == 0..MaxTime
\* Every event object is created by a call.
MaxEvents == MaxCalls
Handles == 1..MaxEvents
NullHandle == 0

\* The six built-in event sources (engine constructor) and one user source.
ptr_bos_evt_src_ == "Begin of Simulation"
ptr_eos_evt_src_ == "End of Simulation"
ptr_bef_evt_src_ == "Before Event Firing"
ptr_aef_evt_src_ == "After Event Firing"
ptr_si_evt_src_ == "System Initialization"
ptr_sf_evt_src_ == "System Finalization"
UserSources == {"U1"}
\* A second user source, for clients that use two.
SecondSources == {"U2"}
BuiltinSources == {ptr_bos_evt_src_, ptr_eos_evt_src_, ptr_bef_evt_src_,
                   ptr_aef_evt_src_, ptr_si_evt_src_, ptr_sf_evt_src_}
Sources == BuiltinSources \cup UserSources \cup SecondSources
\* Sources a client can pass to schedule_event.
SchedulableSources == UserSources \cup {ptr_eos_evt_src_}
\* Sources whose enabled flag changes in the model.
ToggledSources == UserSources \cup {ptr_si_evt_src_}
\* The auxiliary sources, whose sink lists the engine tests with empty().
WrapperSources == {ptr_bef_evt_src_, ptr_aef_evt_src_}

Statistics == {"s1", "s2"}

VARIABLES
    pc,             \* position in run()/do_run()
    phase,          \* position inside fire_next_event/fire_immediate_event
    cur,            \* the event being fired (ptr_cur_evt / cur_evt, cur_time)
    evt_list_,      \* the future event list
    evt,            \* the event objects: handle -> [source, scheduled_time, fire_time]
    nevt,           \* number of event objects created so far
    sim_time_, last_evt_time_, end_of_sim_, num_events_, num_usr_events_,
    enabled,        \* event_source::enabled() of every source
    sinks,          \* the wrapper sources whose sink list is not empty
    mon_stats_,     \* registered statistics -> steady-state latch
    stat,           \* the observable flags of the statistics
    nruns,          \* number of run() calls so far
    ncalls,         \* number of calls the client and the sinks have made so far
    \* history variables (observations, never read by the engine)
    lastOp,         \* outcome of the last operation called by a sink or the client
    pushOrder,      \* handles in the FEL, in the order of their last push
    hist,           \* per event: time of its last reschedule, events queued ahead of it
    prevFire, thisFire, \* fire times of the last two FEL events fired in this run
    core,           \* the immediate (core) events fired in this run
    seeded,         \* an event was pushed to the FEL since the last reset
    trace,          \* what the current (or last) dispatch fired
    n0,             \* num_events_ when the current (or last) dispatch began
    neos,           \* END-OF-SIMULATION events fired in this run
    runlog          \* the script of a repeated run and what each run showed

engineVars == <<evt_list_, evt, nevt, sim_time_, last_evt_time_, end_of_sim_,
                num_events_, num_usr_events_>>
ctlVars == <<pc, phase, cur, nruns, ncalls>>
envVars == <<enabled, sinks>>
statVars == <<mon_stats_, stat>>
histVars == <<lastOp, pushOrder, hist, prevFire, thisFire, core, seeded,
              trace, n0, neos>>
vars == <<engineVars, ctlVars, envVars, statVars, histVars, runlog>>

NoEvent == [source |-> "none", scheduled_time |-> 0, fire_time |-> 0]
\* hist[h]: the last reschedule_event that moved event h since it was created
\* or popped: the fire time it gave (-1: none), the clock at that call, whether
\* the time was clamped, whether h was queued, the events then queued for the
\* same time and still queued since, and whether there were any.
\* dropped: h was popped and discarded because its source was disabled.
NoHist == [t |-> -1, now |-> 0, why |-> "none", queued |-> FALSE,
           ahead |-> {}, had_ahead |-> FALSE, dropped |-> FALSE]
\* cur: the event being fired; for an event popped from the FEL its handle,
\* the events it overtook and its hist at the pop.
NoCur == [id |-> NullHandle, source |-> "none", scheduled_time |-> 0,
          fire_time |-> 0, overtaken |-> {}, hist |-> NoHist]

Max(a, b) == IF a >= b THEN a ELSE b

\* dcs::math::float_traits<RealT>::essentially_equal on the integer times of
\* the model: two integers are within the relative tolerance iff they are equal.
essentially_equal(a, b) == a = b

--------------------------------------------------------------------------
\* event_list<event<RealT>>: a priority queue on (fire_time, push order).
\* The list is kept in push order; top() is the earliest pushed among the
\* events of least fire time.

RECURSIVE RemoveFirst(_, _)
RemoveFirst(l, h) ==
    IF l = <<>> THEN <<>>
    ELSE IF Head(l) = h THEN Tail(l)
    ELSE <<Head(l)>> \o RemoveFirst(Tail(l), h)

el_empty(l) == l = <<>>
el_push(l, h) == Append(l, h)
el_erase(l, h) == RemoveFirst(l, h)
el_clear(l) == <<>>
el_top_index(l, ev) ==
    CHOOSE i \in 1..Len(l) :
        \A j \in 1..Len(l) :
            \/ ev[l[i]].fire_time < ev[l[j]].fire_time
            \/ ev[l[i]].fire_time = ev[l[j]].fire_time /\ i <= j
el_top(l, ev) == l[el_top_index(l, ev)]
el_pop(l, ev) == RemoveFirst(l, el_top(l, ev))
InList(l, h) == \E i \in 1..Len(l) : l[i] = h
Occurrences(l, h) == Cardinality({i \in 1..Len(l) : l[i] = h})

--------------------------------------------------------------------------
\* Pure parts of the engine.

\* engine::is_internal_event
is_internal_event(src) ==
    \/ src = ptr_bos_evt_src_
    \/ src = ptr_eos_evt_src_
    \/ src = ptr_bef_evt_src_
    \/ src = ptr_aef_evt_src_

\* schedule_event without the "time < sim_time_" adjustment.
schedule_time_noclamp(time, now) == time

\* engine::schedule_event: "only schedule future (or immediate) events".
schedule_time(time, now) == IF time < now THEN now ELSE time

\* reschedule_event without the essentially_equal test.
reschedule_check_noequal(src_enabled, fire_time, time, now) ==
    IF ~src_enabled THEN [move |-> FALSE, why |-> "disabled", time |-> fire_time]
    ELSE IF time < now /\ ~(fire_time > now)
    THEN [move |-> FALSE, why |-> "past", time |-> fire_time]
    ELSE [move |-> TRUE,
          why |-> IF time < now THEN "clamped" ELSE "moved",
          time |-> IF time < now THEN now ELSE time]

\* reschedule_event that takes a past time as it is.
reschedule_check_noclamp(src_enabled, fire_time, time, now) ==
    IF ~src_enabled THEN [move |-> FALSE, why |-> "disabled", time |-> fire_time]
    ELSE IF time < now /\ ~(fire_time > now)
    THEN [move |-> FALSE, why |-> "past", time |-> fire_time]
    ELSE IF essentially_equal(time, fire_time)
    THEN [move |-> FALSE, why |-> "equal", time |-> fire_time]
    ELSE [move |-> TRUE,
          why |-> IF time < now THEN "clamped" ELSE "moved",
          time |-> time]

\* engine::reschedule_event, the checks before the erase/push:
\* the outcome and the fire time the event gets.
reschedule_check(src_enabled, fire_time, time, now) ==
    IF ~src_enabled THEN [move |-> FALSE, why |-> "disabled", time |-> fire_time]
    ELSE IF time < now /\ ~(fire_time > now)
    THEN [move |-> FALSE, why |-> "past", time |-> fire_time]
    ELSE LET t == IF time < now THEN now ELSE time IN
         IF essentially_equal(t, fire_time)
         THEN [move |-> FALSE, why |-> "equal", time |-> fire_time]
         ELSE [move |-> TRUE,
               why |-> IF time < now THEN "clamped" ELSE "moved",
               time |-> t]

\* reschedule_event that changes the fire time of a queued event in place
\* (the commented-out evt_list_.touch variant): no erase, no new push.
reschedule_list_touch(l, h) == IF InList(l, h) THEN l ELSE el_push(l, h)

\* reschedule_event that pushes without erasing first.
reschedule_list_noerase(l, h) == el_push(l, h)

\* engine::reschedule_event: evt_list_.erase(ptr_evt); ...; evt_list_.push(ptr_evt)
reschedule_list(l, h) == el_push(el_erase(l, h), h)

\* engine::make_internal_event: a wrapper event of an auxiliary source, stamped
\* with the current clock, embedding the event being fired.
make_internal_event(src, now, embedded) ==
    [source |-> src, scheduled_time |-> now, fire_time |-> now,
     emb_id |-> embedded.id, emb_source |-> embedded.source]

\* What event::fire of the event itself leaves in the trace.
own_event(c) ==
    [source |-> c.source, scheduled_time |-> c.scheduled_time,
     fire_time |-> c.fire_time,
     emb_id |-> NullHandle, emb_source |-> "none"]

\* A statistic as the engine sees it: the flags it reads and the
\* steady-state enter time it writes (-1: none). nrec and reg_steady are
\* observations: how many times the engine recorded the enter time since the
\* last analyze_statistic of the statistic, and whether the statistic had
\* entered steady state at that call.
NoStat == [enabled |-> TRUE, steady_state_entered |-> FALSE,
           target_precision_reached |-> FALSE,
           steady_state_enter_time |-> -1,
           nrec |-> 0, reg_steady |-> FALSE]

\* base_analyzable_statistic::reset as seen through the flags the engine reads.
stat_reset(s) ==
    [s EXCEPT !.steady_state_entered = FALSE,
              !.target_precision_reached = FALSE,
              !.steady_state_enter_time = -1]

\* engine::reset_statistics: reset() on every registered statistic; the latch
\* bits of mon_stats_ are not written.
reset_statistics(ms, st) ==
    [s \in Statistics |-> IF s \in DOMAIN ms THEN stat_reset(st[s]) ELSE st[s]]

\* monitor_statistics with the break its loop has commented out: the
\* statistics that come after one that is short of its precision (s1 comes
\* before s2) are not visited.
monitor_statistics_break(ms, st, now, eos) ==
    IF DOMAIN ms = {} THEN [mon |-> ms, stat |-> st, end_of_sim |-> eos]
    ELSE
      LET short(s) == st[s].enabled /\ ~st[s].target_precision_reached
          visited(s) == ~(s = "s2" /\ "s1" \in DOMAIN ms /\ short("s1"))
          enters(s) == visited(s) /\ ~ms[s] /\ st[s].steady_state_entered
          prec_reached == \A s \in DOMAIN ms : ~short(s)
      IN [mon |-> [s \in DOMAIN ms |-> ms[s] \/ enters(s)],
          stat |-> [s \in Statistics |->
                      IF s \in DOMAIN ms /\ enters(s)
                      THEN [st[s] EXCEPT !.steady_state_enter_time = now,
                                         !.nrec = @ + 1]
                      ELSE st[s]],
          end_of_sim |-> IF prec_reached THEN TRUE ELSE eos]

\* monitor_statistics without the enabled() test of the precision check.
monitor_statistics_noenabled(ms, st, now, eos) ==
    IF DOMAIN ms = {} THEN [mon |-> ms, stat |-> st, end_of_sim |-> eos]
    ELSE
      LET enters(s) == ~ms[s] /\ st[s].steady_state_entered
          prec_reached ==
              \A s \in DOMAIN ms : st[s].target_precision_reached
      IN [mon |-> [s \in DOMAIN ms |-> ms[s] \/ enters(s)],
          stat |-> [s \in Statistics |->
                      IF s \in DOMAIN ms /\ enters(s)
                      THEN [st[s] EXCEPT !.steady_state_enter_time = now,
                                         !.nrec = @ + 1]
                      ELSE st[s]],
          end_of_sim |-> IF prec_reached THEN TRUE ELSE eos]

\* engine::monitor_statistics: the new latch bits, the new statistics and the
\* new end_of_sim_.
monitor_statistics(ms, st, now, eos) ==
    IF DOMAIN ms = {} THEN [mon |-> ms, stat |-> st, end_of_sim |-> eos]
    ELSE
      LET enters(s) == ~ms[s] /\ st[s].steady_state_entered
          prec_reached ==
              \A s \in DOMAIN ms :
                  ~(st[s].enabled /\ ~st[s].target_precision_reached)
      IN [mon |-> [s \in DOMAIN ms |-> ms[s] \/ enters(s)],
          stat |-> [s \in Statistics |->
                      IF s \in DOMAIN ms /\ enters(s)
                      THEN [st[s] EXCEPT !.steady_state_enter_time = now,
                                         !.nrec = @ + 1]
                      ELSE st[s]],
          end_of_sim |-> IF prec_reached THEN TRUE ELSE eos]

\* engine::reset: the clock, the counters, the flag and the FEL after it.
\* num_usr_events_ is not assigned.
reset(nu) ==
    [sim_time |-> 0, last_evt_time |-> 0, num_events |-> 0,
     num_usr_events |-> nu, end_of_sim |-> FALSE, evt_list |-> <<>>]

\* The default run strategy (do_run of a concrete engine): prepare_simulation,
\* initialize_simulated_system, advance() until end_of_sim_ or the FEL is
\* empty, finalize_simulated_system, finalize_simulation. An advance() the
\* client calls between runs returns to the client.
do_run_next(p) ==
    CASE p = "prepare" -> "initialize"
      [] p = "initialize" -> "loop"
      [] p = "loop" -> "loop"
      [] p = "finalize_system" -> "finalize_simulation"
      [] p = "finalize_simulation" -> "run_exit"
      [] p = "idle" -> "idle"

\* runlog: the script of a repeated run (the fire times the client seeds the
\* FEL with in every run, the observation at which the statistic enters
\* steady state) and, per run, what the engine showed at the end of each
\* dispatch. obs = <<>>: nothing is recorded.
NoLog == [seed |-> <<>>, k |-> 0, obs |-> <<>>]
LogFire(rl, n, o) == IF rl.obs = <<>> THEN rl ELSE [rl EXCEPT !.obs[n] = Append(@, o)]

\* lastOp: the operation, its outcome, the handle it returned or was given,
\* whether that event was queued; for the statistics operations the statistic
\* and the registry as it was before the call; for the operations that can
\* raise an error and for remove_statistic the operation called just before
\* and its outcome, for remove_statistic also the registry before that call.
NoOp == [op |-> "none", res |-> "none", h |-> NullHandle, queued |-> FALSE,
         s |-> "none", reg |-> <<>>, prev |-> <<"none", "none">>,
         reg0 |-> <<>>]
Op(name, res, h, q) == [NoOp EXCEPT !.op = name, !.res = res, !.h = h, !.queued = q]
StatOp(name, res, s, reg) == [NoOp EXCEPT !.op = name, !.res = res, !.s = s, !.reg = reg]
\* What a later call keeps of the call before it: an analyze_statistic and a
\* stop_at_time that raised.
Prev(op) ==
    IF op.op = "analyze_statistic" \/ (op.op = "stop_at_time" /\ op.res = "error")
    THEN <<op.op, op.res>>
    ELSE NoOp.prev
PrevReg(op) == IF op.op = "analyze_statistic" THEN op.reg ELSE NoOp.reg0

\* The sinks of the event being fired are running and may call the engine.
\* The sinks of a wrapper event can make the same calls; between fire_own and
\* fire_end the engine writes only num_events_, which no operation reads, so
\* a call made by a wrapper's sink has the effect of the same call made by a
\* sink of the event itself.
SinkRunning == phase = "own"
MayCall == SinkRunning /\ ncalls < MaxCalls
\* The client wires sources before the first run; sinks may do it while they
\* run.
ClientWires == pc = "idle" /\ nruns = 0 /\ ncalls < MaxCalls
MayWire == ClientWires \/ MayCall

\* The handles the client holds: schedule_event returns the handle of the
\* event it creates, stop_at_time returns nothing.
ClientHandles == {h \in 1..nevt : evt[h].source # ptr_eos_evt_src_}

Forget(hs, h) == [x \in Handles |-> [hs[x] EXCEPT !.ahead = @ \ {h}]]
NoHists == [x \in Handles |-> NoHist]

--------------------------------------------------------------------------
InitEngine ==
    /\ pc = "idle"
    /\ phase = "none"
    /\ cur = NoCur
    /\ evt_list_ = <<>>
    /\ evt = [h \in Handles |-> NoEvent]
    /\ nevt = 0
    /\ sim_time_ = 0
    /\ last_evt_time_ = 0
    /\ end_of_sim_ = TRUE
    /\ num_events_ = 0
    /\ num_usr_events_ = 0
    /\ enabled = [s \in Sources |-> TRUE]
    /\ sinks = {}
    /\ mon_stats_ = <<>>
    /\ stat = [s \in Statistics |-> NoStat]
    /\ nruns = 0
    /\ ncalls = 0
    /\ lastOp = NoOp
    /\ pushOrder = <<>>
    /\ hist = NoHists
    /\ prevFire = 0
    /\ thisFire = 0
    /\ core = <<>>
    /\ seeded = FALSE
    /\ trace = <<>>
    /\ n0 = 0
    /\ neos = 0

Init == InitEngine /\ runlog = NoLog

--------------------------------------------------------------------------
\* Firing an event: fire_next_event from "++num_events_" on, and
\* fire_immediate_event after its enabled() check.

Pos(l, h) == CHOOSE i \in 1..Len(l) : l[i] = h

\* Counters, then the BEFORE-OF-EVENT-FIRING wrapper when that source has
\* sinks, else the event itself.
BeginFire(c, now, ne, nu) ==
    /\ cur' = c
    /\ n0' = ne
    /\ neos' = IF c.source = ptr_eos_evt_src_ THEN neos + 1 ELSE neos
    /\ num_events_' = ne + 1
    /\ num_usr_events_' = IF is_internal_event(c.source) THEN nu ELSE nu + 1
    /\ IF ptr_bef_evt_src_ \in sinks
       THEN /\ phase' = "bef"
            /\ trace' = <<make_internal_event(ptr_bef_evt_src_, now, c)>>
       ELSE /\ phase' = "own"
            /\ trace' = <<own_event(c)>>

\* fire_immediate_event that stamps the event with time 0 in the place of
\* sim_time_.
fire_immediate_event_zero(src, now, ne, nu, lt, eos, cb) ==
    IF enabled[src]
    THEN /\ BeginFire([id |-> NullHandle, source |-> src, scheduled_time |-> 0,
                       fire_time |-> 0, overtaken |-> {}, hist |-> NoHist],
                      now, ne, nu)
         /\ pc' = pc
         /\ last_evt_time_' = lt
         /\ end_of_sim_' = eos
         /\ core' = Append(cb, [source |-> src, fire_time |-> now])
    ELSE /\ cur' = NoCur
         /\ phase' = "none"
         /\ trace' = <<>>
         /\ n0' = ne
         /\ neos' = neos
         /\ num_events_' = ne
         /\ num_usr_events_' = nu
         /\ pc' = do_run_next(pc)
         /\ last_evt_time_' = lt
         /\ end_of_sim_' = eos
         /\ core' = cb

\* engine::fire_immediate_event(ptr_src, ctx) up to the first sink call.  The
\* arguments are the values the caller has just assigned.
fire_immediate_event(src, now, ne, nu, lt, eos, cb) ==
    IF enabled[src]
    THEN /\ BeginFire([id |-> NullHandle, source |-> src, scheduled_time |-> now,
                       fire_time |-> now, overtaken |-> {}, hist |-> NoHist],
                      now, ne, nu)
         /\ pc' = pc
         /\ last_evt_time_' = lt
         /\ end_of_sim_' = eos
         /\ core' = Append(cb, [source |-> src, fire_time |-> now])
    ELSE /\ cur' = NoCur
         /\ phase' = "none"
         /\ trace' = <<>>
         /\ n0' = ne
         /\ neos' = neos
         /\ num_events_' = ne
         /\ num_usr_events_' = nu
         /\ pc' = do_run_next(pc)
         /\ last_evt_time_' = lt
         /\ end_of_sim_' = eos
         /\ core' = cb

\* The BEFORE wrapper's sinks have returned: count it, fire the event itself.
fire_own ==
    /\ phase = "bef"
    /\ num_events_' = num_events_ + 1
    /\ phase' = "own"
    /\ trace' = Append(trace, own_event(cur))
    /\ lastOp' = NoOp
    /\ UNCHANGED <<pc, cur, nruns, runlog, ncalls, evt_list_, evt, nevt, sim_time_, last_evt_time_,
                   end_of_sim_, num_usr_events_, envVars, statVars, pushOrder,
                   hist, prevFire, thisFire, core, seeded, n0, neos>>

\* The AFTER wrapper fired without looking at ptr_aef_evt_src_->empty().
fire_after_unguarded ==
    /\ phase = "own"
    /\ phase' = "aft"
    /\ trace' = Append(trace, make_internal_event(ptr_aef_evt_src_, sim_time_, cur))
    /\ lastOp' = NoOp
    /\ UNCHANGED <<pc, cur, nruns, runlog, ncalls, engineVars, envVars, statVars, pushOrder,
                   hist, prevFire, thisFire, core, seeded, n0, neos>>

\* The event's sinks have returned and AFTER-OF-EVENT-FIRING has sinks: fire
\* the wrapper.
fire_after ==
    /\ phase = "own"
    /\ ptr_aef_evt_src_ \in sinks
    /\ phase' = "aft"
    /\ trace' = Append(trace, make_internal_event(ptr_aef_evt_src_, sim_time_, cur))
    /\ lastOp' = NoOp
    /\ UNCHANGED <<pc, cur, nruns, runlog, ncalls, engineVars, envVars, statVars, pushOrder,
                   hist, prevFire, thisFire, core, seeded, n0, neos>>

\* The end of fire_next_event without the check for the end-of-simulation
\* event.
fire_end_nocheck ==
    /\ phase = "aft" \/ (phase = "own" /\ ptr_aef_evt_src_ \notin sinks)
    /\ num_events_' = IF phase = "aft" THEN num_events_ + 1 ELSE num_events_
    /\ last_evt_time_' = cur.fire_time
    /\ LET eos == end_of_sim_
           m == IF pc \in {"loop", "idle"}
                THEN monitor_statistics(mon_stats_, stat, sim_time_, eos)
                ELSE [mon |-> mon_stats_, stat |-> stat, end_of_sim |-> eos]
       IN /\ end_of_sim_' = m.end_of_sim
          /\ mon_stats_' = m.mon
          /\ stat' = m.stat
    /\ phase' = "none"
    /\ cur' = NoCur
    /\ pc' = do_run_next(pc)
    /\ lastOp' = NoOp
    /\ runlog' = LogFire(runlog, nruns,
                         [source |-> cur.source, fire_time |-> cur.fire_time,
                          sim_time |-> sim_time_,
                          last_evt_time |-> last_evt_time_',
                          num_events |-> num_events_',
                          num_usr_events |-> num_usr_events_,
                          enter |-> [s \in Statistics |->
                                       stat'[s].steady_state_enter_time]])
    /\ UNCHANGED <<nruns, ncalls, evt_list_, evt, nevt, sim_time_, num_usr_events_,
                   envVars, pushOrder, hist, prevFire, thisFire, core, seeded,
                   trace, n0, neos>>

\* The end of fire_next_event / fire_immediate_event, and what the caller
\* does next: advance() calls monitor_statistics().
fire_end ==
    /\ phase = "aft" \/ (phase = "own" /\ ptr_aef_evt_src_ \notin sinks)
    /\ num_events_' = IF phase = "aft" THEN num_events_ + 1 ELSE num_events_
    /\ last_evt_time_' = cur.fire_time
    /\ LET eos == IF cur.source = ptr_eos_evt_src_ THEN TRUE ELSE end_of_sim_
           m == IF pc \in {"loop", "idle"}
                THEN monitor_statistics(mon_stats_, stat, sim_time_, eos)
                ELSE [mon |-> mon_stats_, stat |-> stat, end_of_sim |-> eos]
       IN /\ end_of_sim_' = m.end_of_sim
          /\ mon_stats_' = m.mon
          /\ stat' = m.stat
    /\ phase' = "none"
    /\ cur' = NoCur
    /\ pc' = do_run_next(pc)
    /\ lastOp' = NoOp
    /\ runlog' = LogFire(runlog, nruns,
                         [source |-> cur.source, fire_time |-> cur.fire_time,
                          sim_time |-> sim_time_,
                          last_evt_time |-> last_evt_time_',
                          num_events |-> num_events_',
                          num_usr_events |-> num_usr_events_,
                          enter |-> [s \in Statistics |->
                                       stat'[s].steady_state_enter_time]])
    /\ UNCHANGED <<nruns, ncalls, evt_list_, evt, nevt, sim_time_, num_usr_events_,
                   envVars, pushOrder, hist, prevFire, thisFire, core, seeded,
                   trace, n0, neos>>

--------------------------------------------------------------------------
\* run() and the steps of the default run strategy.

\* engine::run, entry: end_of_sim_ = false; do_run().
run ==
    /\ pc = "idle"
    /\ nruns < MaxRuns
    /\ end_of_sim_' = FALSE
    /\ pc' = "prepare"
    /\ nruns' = nruns + 1
    /\ lastOp' = NoOp
    /\ core' = <<>>
    /\ trace' = <<>>
    /\ n0' = 0
    /\ neos' = 0
    /\ UNCHANGED <<phase, cur, ncalls, evt_list_, evt, nevt, sim_time_, last_evt_time_,
                   num_events_, num_usr_events_, envVars, statVars, pushOrder,
                   hist, prevFire, thisFire, seeded, runlog>>

\* engine::prepare_simulation: reset(); reset_statistics(); BEGIN-OF-SIMULATION.
\* The client keeps no event handle of an earlier run: once reset() has
\* cleared the FEL the event objects created so far are gone.
prepare_simulation ==
    /\ pc = "prepare"
    /\ phase = "none"
    /\ LET r == reset(num_usr_events_) IN
       /\ sim_time_' = r.sim_time
       /\ evt_list_' = r.evt_list
       /\ fire_immediate_event(ptr_bos_evt_src_, r.sim_time, r.num_events,
                               r.num_usr_events, r.last_evt_time, r.end_of_sim,
                               <<>>)
    /\ stat' = reset_statistics(mon_stats_, stat)
    /\ pushOrder' = <<>>
    /\ hist' = NoHists
    /\ prevFire' = 0
    /\ thisFire' = 0
    /\ seeded' = FALSE
    /\ evt' = [h \in Handles |-> NoEvent]
    /\ nevt' = 0
    /\ lastOp' = NoOp
    /\ UNCHANGED <<nruns, runlog, ncalls, envVars, mon_stats_>>

\* engine::initialize_simulated_system: SYSTEM-INITIALIZATION.
initialize_simulated_system ==
    /\ pc = "initialize"
    /\ phase = "none"
    /\ fire_immediate_event(ptr_si_evt_src_, sim_time_, num_events_,
                            num_usr_events_, last_evt_time_, end_of_sim_, core)
    /\ lastOp' = NoOp
    /\ UNCHANGED <<nruns, runlog, ncalls, evt_list_, evt, nevt, sim_time_, envVars, statVars,
                   pushOrder, hist, prevFire, thisFire, seeded>>

\* advance() without the end_of_sim_ test.
advance_noeos ==
    /\ pc = "loop"
    /\ phase = "none"
    /\ ~el_empty(evt_list_)
    /\ LET h == el_top(evt_list_, evt)
           e == evt[h]
       IN
       /\ evt_list_' = el_pop(evt_list_, evt)
       /\ pushOrder' = RemoveFirst(pushOrder, h)
       /\ hist' = [Forget(hist, h) EXCEPT ![h] =
                      [NoHist EXCEPT !.dropped = ~enabled[e.source]]]
       /\ IF ~enabled[e.source]
          THEN LET m == monitor_statistics(mon_stats_, stat, sim_time_, end_of_sim_)
               IN /\ end_of_sim_' = m.end_of_sim
                  /\ mon_stats_' = m.mon
                  /\ stat' = m.stat
                  /\ cur' = NoCur
                  /\ trace' = <<>>
                  /\ n0' = num_events_
                  /\ neos' = neos
                  /\ UNCHANGED <<phase, sim_time_, last_evt_time_, num_events_,
                                 num_usr_events_, prevFire, thisFire>>
          ELSE /\ sim_time_' = e.fire_time
               /\ BeginFire([id |-> h, source |-> e.source,
                             scheduled_time |-> e.scheduled_time,
                             fire_time |-> e.fire_time,
                             overtaken |->
                                 {x \in Handles :
                                     /\ x # h
                                     /\ InList(pushOrder, x)
                                     /\ InList(pushOrder, h)
                                     /\ evt[x].fire_time = e.fire_time
                                     /\ Pos(pushOrder, x) < Pos(pushOrder, h)},
                             hist |-> hist[h]],
                            e.fire_time, num_events_, num_usr_events_)
               /\ prevFire' = thisFire
               /\ thisFire' = e.fire_time
               /\ UNCHANGED <<last_evt_time_, end_of_sim_, statVars>>
    /\ lastOp' = NoOp
    /\ UNCHANGED <<pc, nruns, runlog, ncalls, evt, nevt, envVars, core, seeded>>

\* advance whose fire_next_event looks at the source of top() before pop():
\* the event of a disabled source stays in the FEL.
advance_peek ==
    /\ pc = "loop"
    /\ phase = "none"
    /\ ~end_of_sim_
    /\ ~el_empty(evt_list_)
    /\ LET h == el_top(evt_list_, evt)
           e == evt[h]
       IN
       /\ IF ~enabled[e.source]
          THEN UNCHANGED <<evt_list_, pushOrder, hist>>
          ELSE /\ evt_list_' = el_pop(evt_list_, evt)
               /\ pushOrder' = RemoveFirst(pushOrder, h)
               /\ hist' = [Forget(hist, h) EXCEPT ![h] = NoHist]
       /\ IF ~enabled[e.source]
          THEN LET m == monitor_statistics(mon_stats_, stat, sim_time_, end_of_sim_)
               IN /\ end_of_sim_' = m.end_of_sim
                  /\ mon_stats_' = m.mon
                  /\ stat' = m.stat
                  /\ cur' = NoCur
                  /\ trace' = <<>>
                  /\ n0' = num_events_
                  /\ neos' = neos
                  /\ UNCHANGED <<phase, sim_time_, last_evt_time_, num_events_,
                                 num_usr_events_, prevFire, thisFire>>
          ELSE /\ sim_time_' = e.fire_time
               /\ BeginFire([id |-> h, source |-> e.source,
                             scheduled_time |-> e.scheduled_time,
                             fire_time |-> e.fire_time,
                             overtaken |->
                                 {x \in Handles :
                                     /\ x # h
                                     /\ InList(pushOrder, x)
                                     /\ InList(pushOrder, h)
                                     /\ evt[x].fire_time = e.fire_time
                                     /\ Pos(pushOrder, x) < Pos(pushOrder, h)},
                             hist |-> hist[h]],
                            e.fire_time, num_events_, num_usr_events_)
               /\ prevFire' = thisFire
               /\ thisFire' = e.fire_time
               /\ UNCHANGED <<last_evt_time_, end_of_sim_, statVars>>
    /\ lastOp' = NoOp
    /\ UNCHANGED <<pc, nruns, runlog, ncalls, evt, nevt, envVars, core, seeded>>

\* advance whose fire_next_event does not look at the source's enabled().
advance_nocheck ==
    /\ pc = "loop"
    /\ phase = "none"
    /\ ~end_of_sim_
    /\ ~el_empty(evt_list_)
    /\ LET h == el_top(evt_list_, evt)
           e == evt[h]
       IN
       /\ evt_list_' = el_pop(evt_list_, evt)
       /\ pushOrder' = RemoveFirst(pushOrder, h)
       /\ hist' = [Forget(hist, h) EXCEPT ![h] =
                      [NoHist EXCEPT !.dropped = ~enabled[e.source]]]
       /\ IF FALSE
          THEN LET m == monitor_statistics(mon_stats_, stat, sim_time_, end_of_sim_)
               IN /\ end_of_sim_' = m.end_of_sim
                  /\ mon_stats_' = m.mon
                  /\ stat' = m.stat
                  /\ cur' = NoCur
                  /\ trace' = <<>>
                  /\ n0' = num_events_
                  /\ neos' = neos
                  /\ UNCHANGED <<phase, sim_time_, last_evt_time_, num_events_,
                                 num_usr_events_, prevFire, thisFire>>
          ELSE /\ sim_time_' = e.fire_time
               /\ BeginFire([id |-> h, source |-> e.source,
                             scheduled_time |-> e.scheduled_time,
                             fire_time |-> e.fire_time,
                             overtaken |->
                                 {x \in Handles :
                                     /\ x # h
                                     /\ InList(pushOrder, x)
                                     /\ InList(pushOrder, h)
                                     /\ evt[x].fire_time = e.fire_time
                                     /\ Pos(pushOrder, x) < Pos(pushOrder, h)},
                             hist |-> hist[h]],
                            e.fire_time, num_events_, num_usr_events_)
               /\ prevFire' = thisFire
               /\ thisFire' = e.fire_time
               /\ UNCHANGED <<last_evt_time_, end_of_sim_, statVars>>
    /\ lastOp' = NoOp
    /\ UNCHANGED <<pc, nruns, runlog, ncalls, evt, nevt, envVars, core, seeded>>

\* engine::advance with fire_next_event up to the first sink call; when the
\* popped event's source is disabled the whole of advance().
advance ==
    /\ pc = "loop"
    /\ phase = "none"
    /\ ~end_of_sim_
    /\ ~el_empty(evt_list_)
    /\ LET h == el_top(evt_list_, evt)
           e == evt[h]
       IN
       /\ evt_list_' = el_pop(evt_list_, evt)
       /\ pushOrder' = RemoveFirst(pushOrder, h)
       /\ hist' = [Forget(hist, h) EXCEPT ![h] =
                      [NoHist EXCEPT !.dropped = ~enabled[e.source]]]
       /\ IF ~enabled[e.source]
          THEN LET m == monitor_statistics(mon_stats_, stat, sim_time_, end_of_sim_)
               IN /\ end_of_sim_' = m.end_of_sim
                  /\ mon_stats_' = m.mon
                  /\ stat' = m.stat
                  /\ cur' = NoCur
                  /\ trace' = <<>>
                  /\ n0' = num_events_
                  /\ neos' = neos
                  /\ UNCHANGED <<phase, sim_time_, last_evt_time_, num_events_,
                                 num_usr_events_, prevFire, thisFire>>
          ELSE /\ sim_time_' = e.fire_time
               /\ BeginFire([id |-> h, source |-> e.source,
                             scheduled_time |-> e.scheduled_time,
                             fire_time |-> e.fire_time,
                             overtaken |->
                                 {x \in Handles :
                                     /\ x # h
                                     /\ InList(pushOrder, x)
                                     /\ InList(pushOrder, h)
                                     /\ evt[x].fire_time = e.fire_time
                                     /\ Pos(pushOrder, x) < Pos(pushOrder, h)},
                             hist |-> hist[h]],
                            e.fire_time, num_events_, num_usr_events_)
               /\ prevFire' = thisFire
               /\ thisFire' = e.fire_time
               /\ UNCHANGED <<last_evt_time_, end_of_sim_, statVars>>
    /\ lastOp' = NoOp
    /\ UNCHANGED <<pc, nruns, runlog, ncalls, evt, nevt, envVars, core, seeded>>

\* The loop of the default run strategy ends: end_of_sim_ or the FEL is empty.
do_run_loop_exit ==
    /\ pc = "loop"
    /\ phase = "none"
    /\ end_of_sim_ \/ el_empty(evt_list_)
    /\ pc' = "finalize_system"
    /\ lastOp' = NoOp
    /\ UNCHANGED <<phase, cur, nruns, runlog, ncalls, engineVars, envVars, statVars, pushOrder,
                   hist, prevFire, thisFire, core, seeded, trace, n0, neos>>

\* finalize_simulated_system firing END-OF-SIMULATION in the place of
\* SYSTEM-FINALIZATION.
finalize_simulated_system_eos ==
    /\ pc = "finalize_system"
    /\ phase = "none"
    /\ fire_immediate_event(ptr_eos_evt_src_, sim_time_, num_events_,
                            num_usr_events_, last_evt_time_, end_of_sim_, core)
    /\ lastOp' = NoOp
    /\ UNCHANGED <<nruns, runlog, ncalls, evt_list_, evt, nevt, sim_time_, envVars, statVars,
                   pushOrder, hist, prevFire, thisFire, seeded>>

\* engine::finalize_simulated_system: SYSTEM-FINALIZATION.
finalize_simulated_system ==
    /\ pc = "finalize_system"
    /\ phase = "none"
    /\ fire_immediate_event(ptr_sf_evt_src_, sim_time_, num_events_,
                            num_usr_events_, last_evt_time_, end_of_sim_, core)
    /\ lastOp' = NoOp
    /\ UNCHANGED <<nruns, runlog, ncalls, evt_list_, evt, nevt, sim_time_, envVars, statVars,
                   pushOrder, hist, prevFire, thisFire, seeded>>

\* engine::finalize_simulation: end_of_sim_ = true; evt_list_.clear();
\* END-OF-SIMULATION.
finalize_simulation ==
    /\ pc = "finalize_simulation"
    /\ phase = "none"
    /\ evt_list_' = el_clear(evt_list_)
    /\ fire_immediate_event(ptr_eos_evt_src_, sim_time_, num_events_,
                            num_usr_events_, last_evt_time_, TRUE, core)
    /\ pushOrder' = <<>>
    /\ hist' = [x \in Handles |-> [hist[x] EXCEPT !.ahead = {}]]
    /\ lastOp' = NoOp
    /\ UNCHANGED <<nruns, runlog, ncalls, evt, nevt, sim_time_, envVars, statVars, prevFire,
                   thisFire, seeded>>

\* engine::run, exit: do_run() has returned; end_of_sim_ = true.
run_exit ==
    /\ pc = "run_exit"
    /\ end_of_sim_' = TRUE
    /\ pc' = "idle"
    /\ lastOp' = NoOp
    /\ UNCHANGED <<phase, cur, nruns, runlog, ncalls, evt_list_, evt, nevt, sim_time_,
                   last_evt_time_, num_events_, num_usr_events_, envVars,
                   statVars, pushOrder, hist, prevFire, thisFire, core, seeded,
                   trace, n0, neos>>

--------------------------------------------------------------------------
\* The operations a sink or the client calls.

\* schedule_event without the enabled() check.
do_schedule_event_unchecked(name, src, time) ==
    /\ LET h == nevt + 1 IN
       /\ nevt' = h
       /\ evt' = [evt EXCEPT ![h] =
                     [source |-> src, scheduled_time |-> sim_time_,
                      fire_time |-> schedule_time(time, sim_time_)]]
       /\ evt_list_' = el_push(evt_list_, h)
       /\ lastOp' = Op(name, IF time < sim_time_ THEN "clamped" ELSE "ok",
                       h, FALSE)
       /\ pushOrder' = Append(pushOrder, h)
       /\ hist' = [hist EXCEPT ![h] = NoHist]
       /\ seeded' = TRUE
    /\ ncalls' = ncalls + 1
    /\ UNCHANGED <<pc, phase, cur, nruns, runlog, sim_time_, last_evt_time_, end_of_sim_,
                   num_events_, num_usr_events_, envVars, statVars, prevFire,
                   thisFire, core, trace, n0, neos>>

\* engine::schedule_event(ptr_src, time); name is the operation the caller
\* invoked (schedule_event itself, or stop_at_time).
do_schedule_event(name, src, time) ==
    /\ IF ~enabled[src]
       THEN /\ lastOp' = Op(name, "dropped", NullHandle, FALSE)
            /\ UNCHANGED <<evt_list_, evt, nevt, pushOrder, hist, seeded>>
       ELSE LET h == nevt + 1 IN
            /\ nevt' = h
            /\ evt' = [evt EXCEPT ![h] =
                          [source |-> src, scheduled_time |-> sim_time_,
                           fire_time |-> schedule_time(time, sim_time_)]]
            /\ evt_list_' = el_push(evt_list_, h)
            /\ lastOp' = Op(name, IF time < sim_time_ THEN "clamped" ELSE "ok",
                            h, FALSE)
            /\ pushOrder' = Append(pushOrder, h)
            /\ hist' = [hist EXCEPT ![h] = NoHist]
            /\ seeded' = TRUE
    /\ ncalls' = ncalls + 1
    /\ UNCHANGED <<pc, phase, cur, nruns, runlog, sim_time_, last_evt_time_, end_of_sim_,
                   num_events_,
                   num_usr_events_, envVars, statVars, prevFire, thisFire, core,
                   trace, n0, neos>>

schedule_event(src, time) ==
    /\ MayCall
    /\ do_schedule_event("schedule_event", src, time)

\* engine::reschedule_event(ptr_evt, time)
do_reschedule_event(h, time) ==
    /\ LET c == reschedule_check(enabled[evt[h].source], evt[h].fire_time,
                                 time, sim_time_)
           q == InList(evt_list_, h)
       IN
       IF c.move
       THEN /\ evt_list_' = reschedule_list(evt_list_, h)
            /\ evt' = [evt EXCEPT ![h].fire_time = c.time]
            /\ lastOp' = Op("reschedule_event", c.why, h, q)
            /\ pushOrder' = Append(RemoveFirst(pushOrder, h), h)
            /\ LET a == {x \in Handles : /\ x # h
                                          /\ InList(evt_list_, x)
                                          /\ evt[x].fire_time = c.time}
               IN hist' = [Forget(hist, h) EXCEPT ![h] =
                              [t |-> c.time, now |-> sim_time_, why |-> c.why,
                               queued |-> q, ahead |-> a, had_ahead |-> a # {},
                               dropped |-> hist[h].dropped]]
            /\ seeded' = TRUE
       ELSE /\ lastOp' = Op("reschedule_event", c.why, h, q)
            /\ UNCHANGED <<evt_list_, evt, pushOrder, hist, seeded>>
    /\ ncalls' = ncalls + 1
    /\ UNCHANGED <<pc, phase, cur, nruns, runlog, nevt, sim_time_, last_evt_time_, end_of_sim_,
                   num_events_, num_usr_events_, envVars, statVars, prevFire,
                   thisFire, core, trace, n0, neos>>

reschedule_event(h, time) ==
    /\ MayCall
    /\ do_reschedule_event(h, time)

\* engine::stop_at_time -> do_stop_at_time: throws std::logic_error for a
\* past time, else schedule_event(ptr_eos_evt_src_, time).
do_stop_at_time_unchecked(time) ==
    do_schedule_event("stop_at_time", ptr_eos_evt_src_, time)

do_stop_at_time(time) ==
    /\ IF time >= sim_time_
       THEN do_schedule_event("stop_at_time", ptr_eos_evt_src_, time)
       ELSE /\ lastOp' = [Op("stop_at_time", "error", NullHandle, FALSE)
                             EXCEPT !.prev = Prev(lastOp)]
            /\ ncalls' = ncalls + 1
            /\ UNCHANGED <<pc, phase, cur, nruns, runlog, engineVars, envVars, statVars, pushOrder,
                           hist, prevFire, thisFire, core, seeded, trace, n0, neos>>

stop_at_time(time) == MayCall /\ do_stop_at_time(time)

\* stop_now as do_stop_now's disabled body has it: stop_at_time(sim_time_)
\* in the place of end_of_sim_ = true.
stop_now_at_time == do_stop_at_time(sim_time_)

\* engine::stop_now: do_stop_now() does nothing; end_of_sim_ = true.
stop_now_call ==
    /\ end_of_sim_' = TRUE
    /\ lastOp' = Op("stop_now", "ok", NullHandle, FALSE)
    /\ ncalls' = ncalls + 1
    /\ UNCHANGED <<pc, phase, cur, nruns, runlog, evt_list_, evt, nevt, sim_time_, last_evt_time_,
                   num_events_, num_usr_events_, envVars, statVars, pushOrder,
                   hist, prevFire, thisFire, core, seeded, trace, n0, neos>>

stop_now == MayCall /\ stop_now_call

\* event_source::enable(b): on a user source by the client or a sink, on the
\* SYSTEM-INITIALIZATION source (system_initialization_event_source()) by the
\* client.
do_enable(src, b) ==
    /\ enabled[src] # b
    /\ ncalls' = ncalls + 1
    /\ enabled' = [enabled EXCEPT ![src] = b]
    /\ lastOp' = Op("enable", "ok", NullHandle, FALSE)
    /\ UNCHANGED <<pc, phase, cur, nruns, runlog, engineVars, sinks, statVars, pushOrder, hist,
                   prevFire, thisFire, core, seeded, trace, n0, neos>>

enable(src, b) ==
    /\ IF src \in UserSources THEN MayWire ELSE ClientWires
    /\ do_enable(src, b)

\* event_source::connect / disconnect on an auxiliary source, as far as
\* empty() shows it; the client wires the sinks between runs.
connect(src) ==
    /\ ClientWires
    /\ src \notin sinks
    /\ sinks' = sinks \cup {src}
    /\ lastOp' = Op("connect", "ok", NullHandle, FALSE)
    /\ ncalls' = ncalls + 1
    /\ UNCHANGED <<pc, phase, cur, nruns, runlog, engineVars, enabled, statVars, pushOrder, hist,
                   prevFire, thisFire, core, seeded, trace, n0, neos>>

disconnect(src) ==
    /\ ClientWires
    /\ src \in sinks
    /\ sinks' = sinks \ {src}
    /\ lastOp' = Op("disconnect", "ok", NullHandle, FALSE)
    /\ ncalls' = ncalls + 1
    /\ UNCHANGED <<pc, phase, cur, nruns, runlog, engineVars, enabled, statVars, pushOrder, hist,
                   prevFire, thisFire, core, seeded, trace, n0, neos>>

--------------------------------------------------------------------------
Next ==
    \/ run
    \/ prepare_simulation
    \/ initialize_simulated_system
    \/ advance
    \/ do_run_loop_exit
    \/ finalize_simulated_system
    \/ finalize_simulation
    \/ run_exit
    \/ fire_own
    \/ fire_after
    \/ fire_end
    \/ \E src \in UserSources, time \in Times : schedule_event(src, time)
    \/ \E h \in ClientHandles, time \in Times : reschedule_event(h, time)
    \/ stop_now
    \/ \E time \in Times : stop_at_time(time)
    \/ \E src \in ToggledSources, b \in BOOLEAN : enable(src, b)
    \/ \E src \in WrapperSources : connect(src)
    \/ \E src \in WrapperSources : disconnect(src)

Spec == Init /\ [][Next]_vars

--------------------------------------------------------------------------
\* A client with two user sources whose sinks schedule, reschedule and
\* enable or disable the sources, in one run, with MaxCallsToggle calls that
\* create MaxEventsToggle events.
\* Sinks are connected to the SYSTEM-INITIALIZATION source and to the user
\* sources; the times they schedule at are the earliest and the latest.
MayCallToggle ==
    SinkRunning /\ pc \in {"initialize", "loop"} /\ ncalls < MaxCallsToggle
EdgeTimes == {0, MaxTime}

NextToggle ==
    \/ nruns = 0 /\ run
    \/ prepare_simulation
    \/ initialize_simulated_system
    \/ advance
    \/ do_run_loop_exit
    \/ finalize_simulated_system
    \/ finalize_simulation
    \/ run_exit
    \/ fire_own
    \/ fire_after
    \/ fire_end
    \/ \E src \in UserSources \cup SecondSources, time \in EdgeTimes :
          /\ MayCallToggle
          /\ nevt < MaxEventsToggle
          /\ do_schedule_event("schedule_event", src, time)
    \/ \E h \in ClientHandles, time \in EdgeTimes :
          MayCallToggle /\ do_reschedule_event(h, time)
    \/ \E src \in UserSources \cup SecondSources, b \in BOOLEAN :
          MayCallToggle /\ do_enable(src, b)
    \/ MayCallToggle /\ stop_now_call
    \/ \E src \in WrapperSources : connect(src)

SpecToggle == Init /\ [][NextToggle]_vars

--------------------------------------------------------------------------
\* The statistics registry. The client registers statistics before a run or
\* between runs, the sinks while they run; the sinks' observations change the
\* flags of a statistic. MaxCallsStats calls create MaxEventsStats events in
\* a run. No sink is connected to the BEFORE_FIRE and AFTER_FIRE sources.
MaxCallsStats == 4
MaxEventsStats == 2
NullStat == "null"

\* Sinks are connected to the SYSTEM-INITIALIZATION source and to the user
\* sources; the client calls the engine before the first run.
SinkCallsStats == SinkRunning /\ pc \in {"initialize", "loop"} /\ ncalls < MaxCallsStats
MayCallStats == SinkCallsStats \/ (pc = "idle" /\ nruns = 0 /\ ncalls < MaxCallsStats)

\* base_analyzable_statistic::initialize_for_experiment as seen through the
\* flags the engine reads: what it does to them depends on the statistic, it
\* leaves them (keep) or clears them as reset() does.
initialize_for_experiment(st, keep) == IF keep THEN st ELSE stat_reset(st)

StatUnchanged ==
    UNCHANGED <<pc, phase, cur, nruns, engineVars, envVars, pushOrder, hist,
                prevFire, thisFire, core, seeded, trace, n0, neos>>

\* engine::analyze_statistic: mon_stats_[ptr_stat] = steady_state_entered();
\* initialize_for_experiment() unless end_of_sim_.
analyze_statistic(s) ==
    /\ MayCallStats
    /\ mon_stats_' = [x \in DOMAIN mon_stats_ \cup {s} |->
                         IF x = s THEN stat[s].steady_state_entered
                         ELSE mon_stats_[x]]
    /\ \E keep \in BOOLEAN :
          stat' = [stat EXCEPT ![s] =
                      [(IF ~end_of_sim_ THEN initialize_for_experiment(@, keep) ELSE @)
                          EXCEPT !.nrec = 0,
                                 !.reg_steady = stat[s].steady_state_entered]]
    /\ lastOp' = StatOp("analyze_statistic", "ok", s, mon_stats_)
    /\ ncalls' = ncalls + 1
    /\ UNCHANGED runlog
    /\ StatUnchanged

\* remove_statistic clearing the registry as remove_statistics does.
remove_statistic_all(s) ==
    /\ MayCallStats
    /\ mon_stats_' = <<>>
    /\ lastOp' = StatOp("remove_statistic", "ok", s, mon_stats_)
    /\ ncalls' = ncalls + 1
    /\ UNCHANGED stat
    /\ UNCHANGED runlog
    /\ StatUnchanged

\* engine::remove_statistic: std::invalid_argument for a null pointer and for
\* a statistic that is not in mon_stats_, else mon_stats_.erase(ptr_stat).
remove_statistic(s) ==
    /\ MayCallStats
    /\ IF s = NullStat \/ s \notin DOMAIN mon_stats_
       THEN /\ lastOp' = [StatOp("remove_statistic", "error", s, <<>>)
                             EXCEPT !.prev = Prev(lastOp)]
            /\ UNCHANGED statVars
       ELSE /\ mon_stats_' = [x \in DOMAIN mon_stats_ \ {s} |-> mon_stats_[x]]
            /\ lastOp' = [StatOp("remove_statistic", "ok", s, mon_stats_)
                             EXCEPT !.prev = Prev(lastOp),
                                    !.reg0 = PrevReg(lastOp)]
            /\ UNCHANGED stat
    /\ ncalls' = ncalls + 1
    /\ UNCHANGED runlog
    /\ StatUnchanged

\* engine::remove_statistics: mon_stats_.clear().
remove_statistics ==
    /\ MayCallStats
    /\ mon_stats_ # <<>>
    /\ mon_stats_' = <<>>
    /\ lastOp' = StatOp("remove_statistics", "ok", "none", <<>>)
    /\ ncalls' = ncalls + 1
    /\ UNCHANGED stat
    /\ UNCHANGED runlog
    /\ StatUnchanged

\* A sink gives the statistic an observation: the statistic may enter steady
\* state and its target precision may become reached or not reached.
stat_collect(s, sse, tpr) ==
    /\ SinkCallsStats
    /\ stat[s].steady_state_entered => sse
    /\ <<sse, tpr>> # <<stat[s].steady_state_entered, stat[s].target_precision_reached>>
    /\ stat' = [stat EXCEPT ![s].steady_state_entered = sse,
                            ![s].target_precision_reached = tpr]
    /\ lastOp' = StatOp("collect", "ok", s, <<>>)
    /\ ncalls' = ncalls + 1
    /\ UNCHANGED mon_stats_
    /\ UNCHANGED runlog
    /\ StatUnchanged

\* base_analyzable_statistic::enable(b), by the client or a sink.
stat_enable(s, b) ==
    /\ MayCallStats
    /\ stat[s].enabled # b
    /\ stat' = [stat EXCEPT ![s].enabled = b]
    /\ lastOp' = StatOp("stat_enable", "ok", s, <<>>)
    /\ ncalls' = ncalls + 1
    /\ UNCHANGED mon_stats_
    /\ UNCHANGED runlog
    /\ StatUnchanged

NextStats ==
    \/ run
    \/ prepare_simulation
    \/ initialize_simulated_system
    \/ advance
    \/ do_run_loop_exit
    \/ finalize_simulated_system
    \/ finalize_simulation
    \/ run_exit
    \/ fire_end
    \/ \E src \in UserSources, time \in EdgeTimes :
          /\ SinkCallsStats
          /\ nevt < MaxEventsStats
          /\ do_schedule_event("schedule_event", src, time)
    \/ \E time \in EdgeTimes :
          /\ SinkCallsStats
          /\ time < sim_time_ \/ nevt < MaxEventsStats
          /\ do_stop_at_time(time)
    \/ \E s \in Statistics : analyze_statistic(s)
    \/ \E s \in Statistics \cup {NullStat} : remove_statistic(s)
    \/ remove_statistics
    \/ \E s \in Statistics, sse \in BOOLEAN, tpr \in BOOLEAN : stat_collect(s, sse, tpr)
    \/ \E s \in Statistics, b \in BOOLEAN : stat_enable(s, b)

SpecStats == Init /\ [][NextStats]_vars

--------------------------------------------------------------------------
\* Repeated runs. The client registers one statistic, then calls run()
\* MaxRuns times; in every run its SYSTEM-INITIALIZATION sink seeds the FEL
\* with the same up to MaxSeed events, and the sink of every user event gives
\* the statistic one observation; the statistic enters steady state at its
\* k-th observation after a reset.
MaxSeed == 2
Seeds == UNION {[1..n -> Times] : n \in 0..MaxSeed}

InitRerun ==
    /\ InitEngine
    /\ \E sd \in Seeds, k \in 1..MaxSeed :
          runlog = [seed |-> sd, k |-> k, obs |-> [r \in 1..MaxRuns |-> <<>>]]

\* The SYSTEM-INITIALIZATION sink schedules the next event of the seed.
reseed ==
    /\ pc = "initialize"
    /\ phase = "own"
    /\ nevt < Len(runlog.seed)
    /\ do_schedule_event("schedule_event", "U1", runlog.seed[nevt + 1])

\* The sink of the user event being fired gives the statistic an observation.
observe ==
    /\ pc = "loop"
    /\ phase = "own"
    /\ cur.source \in UserSources
    /\ lastOp.op # "collect"
    /\ stat' = [stat EXCEPT !["s1"].steady_state_entered =
                    (Len(runlog.seed) - Len(evt_list_) >= runlog.k)]
    /\ lastOp' = StatOp("collect", "ok", "s1", <<>>)
    /\ UNCHANGED <<ncalls, mon_stats_, runlog>>
    /\ StatUnchanged

\* The sinks of the event being fired have made their calls.
SinksReturn ==
    /\ ~(pc = "initialize" /\ nevt < Len(runlog.seed))
    /\ ~(pc = "loop" /\ cur.source \in UserSources /\ lastOp.op # "collect")

NextRerun ==
    \/ nruns = 0 /\ "s1" \notin DOMAIN mon_stats_ /\ analyze_statistic("s1")
    \/ "s1" \in DOMAIN mon_stats_ /\ run
    \/ prepare_simulation
    \/ initialize_simulated_system
    \/ advance
    \/ do_run_loop_exit
    \/ finalize_simulated_system
    \/ finalize_simulation
    \/ run_exit
    \/ reseed
    \/ observe
    \/ SinksReturn /\ fire_end

SpecRerun == InitRerun /\ [][NextRerun]_vars

--------------------------------------------------------------------------
\* advance() called from outside the run loop: by the client, before a run or
\* between runs, and by a sink. The client also seeds the FEL before run().
\* A sink calls advance() only where the call returns at once (a dispatch
\* nested in a dispatch is not modelled).

\* advance() without the end_of_sim_ test.
advance_runs_noeos(eos, l) == ~el_empty(l)

\* engine::advance: the condition of its if.
advance_runs(eos, l) == ~eos /\ ~el_empty(l)

ClientCallsAdvance == pc = "idle" /\ phase = "none" /\ ncalls < MaxCallsStats
MayCallAdvance ==
    \/ ClientCallsAdvance
    \/ SinkCallsStats /\ (end_of_sim_ \/ el_empty(evt_list_))

\* engine::advance as a call: fire_next_event up to the first sink call (the
\* whole of it when the popped event's source is disabled), or nothing.
advance_call ==
    /\ MayCallAdvance
    /\ ncalls' = ncalls + 1
    /\ IF advance_runs(end_of_sim_, evt_list_)
       THEN LET h == el_top(evt_list_, evt)
                e == evt[h]
            IN
            /\ evt_list_' = el_pop(evt_list_, evt)
            /\ pushOrder' = RemoveFirst(pushOrder, h)
            /\ hist' = [Forget(hist, h) EXCEPT ![h] =
                           [NoHist EXCEPT !.dropped = ~enabled[e.source]]]
            /\ lastOp' = Op("advance", "popped", h, TRUE)
            /\ IF ~enabled[e.source]
               THEN LET m == monitor_statistics(mon_stats_, stat, sim_time_,
                                                end_of_sim_)
                    IN /\ end_of_sim_' = m.end_of_sim
                       /\ mon_stats_' = m.mon
                       /\ stat' = m.stat
                       /\ cur' = NoCur
                       /\ trace' = <<>>
                       /\ n0' = num_events_
                       /\ neos' = neos
                       /\ UNCHANGED <<phase, sim_time_, last_evt_time_,
                                      num_events_, num_usr_events_, prevFire,
                                      thisFire>>
               ELSE /\ sim_time_' = e.fire_time
                    /\ BeginFire([id |-> h, source |-> e.source,
                                  scheduled_time |-> e.scheduled_time,
                                  fire_time |-> e.fire_time,
                                  overtaken |-> {}, hist |-> hist[h]],
                                 e.fire_time, num_events_, num_usr_events_)
                    /\ prevFire' = thisFire
                    /\ thisFire' = e.fire_time
                    /\ UNCHANGED <<last_evt_time_, end_of_sim_, statVars>>
            /\ UNCHANGED <<pc, nruns, runlog, evt, nevt, envVars, core, seeded>>
       ELSE /\ lastOp' = Op("advance", "nothing", NullHandle, FALSE)
            /\ UNCHANGED <<pc, phase, cur, nruns, runlog, engineVars, envVars,
                           statVars, pushOrder, hist, prevFire, thisFire, core,
                           seeded, trace, n0, neos>>

NextAdvance ==
    \/ run
    \/ prepare_simulation
    \/ initialize_simulated_system
    \/ advance
    \/ do_run_loop_exit
    \/ finalize_simulated_system
    \/ finalize_simulation
    \/ run_exit
    \/ fire_end
    \/ \E src \in UserSources, time \in EdgeTimes :
          /\ SinkCallsStats \/ (ClientCallsAdvance /\ nruns = 0)
          /\ nevt < MaxEventsStats
          /\ do_schedule_event("schedule_event", src, time)
    \/ SinkCallsStats /\ stop_now_call
    \/ \E s \in Statistics : analyze_statistic(s)
    \/ \E s \in Statistics, sse \in BOOLEAN, tpr \in BOOLEAN : stat_collect(s, sse, tpr)
    \/ advance_call

SpecAdvance == Init /\ [][NextAdvance]_vars

--------------------------------------------------------------------------
\* A run whose sinks schedule only before the loop: the sink of
\* SYSTEM-INITIALIZATION seeds the FEL; the sinks of the events fired in the
\* loop enable and disable the user source and call stop_now, and schedule
\* or reschedule nothing. Every sink returns, so every step of the engine
\* that can be taken is taken.
MayCallDrain == SinkRunning /\ pc \in {"initialize", "loop"} /\ ncalls < MaxCalls

EngineStep ==
    \/ prepare_simulation
    \/ initialize_simulated_system
    \/ advance
    \/ do_run_loop_exit
    \/ finalize_simulated_system
    \/ finalize_simulation
    \/ run_exit
    \/ fire_end

NextDrain ==
    \/ run
    \/ EngineStep
    \/ \E src \in UserSources, time \in Times :
          /\ MayCallDrain /\ pc = "initialize"
          /\ do_schedule_event("schedule_event", src, time)
    \/ \E src \in UserSources, b \in BOOLEAN : MayCallDrain /\ do_enable(src, b)
    \/ MayCallDrain /\ stop_now_call

SpecDrain == Init /\ [][NextDrain]_vars /\ WF_vars(EngineStep)

TypeOK ==
    /\ pc \in {"idle", "prepare", "initialize", "loop", "finalize_system",
               "finalize_simulation", "run_exit"}
    /\ phase \in {"none", "bef", "own", "aft"}
    /\ sim_time_ \in Times
    /\ last_evt_time_ \in Times
    /\ end_of_sim_ \in BOOLEAN
    /\ nevt \in 0..MaxEvents
    /\ \A i \in 1..Len(evt_list_) : evt_list_[i] \in 1..nevt

--------------------------------------------------------------------------
\* Properties.

FiringFromFEL == phase # "none" /\ cur.id # NullHandle
RunReturned == pc = "idle" /\ nruns > 0

\* C1: within one run the events popped from the FEL and fired have
\* nondecreasing fire times: the fire time of each such event is at least
\* the fire time of the one fired before it.
C1_FireTimesNondecreasing == prevFire <= thisFire

\* Two FEL events have fired in this run, at different positive times.
C1_Witness == FiringFromFEL /\ 0 < prevFire /\ prevFire < thisFire

\* C2: an event popped from the FEL for firing leaves behind no event of the
\* same fire time that was pushed (by schedule_event or by the re-push of
\* reschedule_event) before it.
C2_SameTimeFIFO == FiringFromFEL => cur.overtaken = {}

\* An event has just been popped while a rescheduled event of the same fire
\* time stays queued behind it.
C2_Witness ==
    /\ FiringFromFEL
    /\ lastOp = NoOp
    /\ \E x \in Handles :
          /\ InList(evt_list_, x)
          /\ evt[x].fire_time = cur.fire_time
          /\ hist[x].t = cur.fire_time

\* C3: after prepare_simulation has reset the clock, no step of the run
\* decreases simulated_time().
C3_ClockNondecreasing ==
    [][~(pc = "prepare" /\ phase = "none") => sim_time_' >= sim_time_]_vars

\* The clock has advanced twice in a run.
C3_Witness == phase = "own" /\ sim_time_ = 2 /\ last_evt_time_ = 1

\* C4: after run() returns end_of_simulation() is true and the FEL is empty.
C4_AfterRun == RunReturned => (end_of_sim_ /\ el_empty(evt_list_))

\* The four core events in the order of the class documentation, and those
\* among them whose source is enabled.
CoreOrder ==
    <<ptr_bos_evt_src_, ptr_si_evt_src_, ptr_sf_evt_src_, ptr_eos_evt_src_>>
IsEnabled(src) == enabled[src]
EnabledCoreOrder == SelectSeq(CoreOrder, IsEnabled)
CoreSources == [i \in 1..Len(core) |-> core[i].source]
IsPrefix(a, b) == Len(a) <= Len(b) /\ \A i \in 1..Len(a) : a[i] = b[i]
CoreFired(order) ==
    /\ IsPrefix(CoreSources, order)
    /\ FiringFromFEL =>
          CoreSources = SelectSeq(order, LAMBDA x :
                            x \in {ptr_bos_evt_src_, ptr_si_evt_src_})
    /\ RunReturned => CoreSources = order
    /\ (RunReturned /\ ~seeded) =>
          /\ \A i \in 1..Len(core) : core[i].fire_time = 0
          /\ sim_time_ = 0

BefPart == IF ptr_bef_evt_src_ \in sinks
           THEN <<make_internal_event(ptr_bef_evt_src_, sim_time_, cur)>>
           ELSE <<>>
AftPart == <<make_internal_event(ptr_aef_evt_src_, sim_time_, cur)>>

\* C6: for every event fired by fire_next_event the BEFORE_FIRE wrapper,
\* embedding the event, is fired before the event's own sinks exactly when
\* the BEFORE_FIRE source has sinks, the AFTER_FIRE wrapper, embedding the
\* event, is fired after them exactly when the AFTER_FIRE source has sinks,
\* and num_events_ counts the event and only the wrappers that were fired.
C6_WrappersAroundEvent ==
    /\ FiringFromFEL =>
          /\ phase = "bef" => (ptr_bef_evt_src_ \in sinks /\ trace = BefPart)
          /\ phase = "own" => trace = BefPart \o <<own_event(cur)>>
          /\ phase = "aft" =>
                /\ ptr_aef_evt_src_ \in sinks
                /\ trace = BefPart \o <<own_event(cur)>> \o AftPart
          /\ num_events_ = n0 + Len(trace) - (IF phase = "aft" THEN 1 ELSE 0)
    /\ (pc = "loop" /\ phase = "none" /\ trace # <<>>) =>
          /\ Len(trace) = 1 + Cardinality(sinks \cap WrapperSources)
          /\ num_events_ = n0 + Len(trace)

\* A user event has been dispatched with sinks on BEFORE_FIRE only: the
\* BEFORE wrapper was fired and counted, the AFTER wrapper was not.
C6_Witness ==
    /\ pc = "loop" /\ phase = "none"
    /\ sinks = {ptr_bef_evt_src_}
    /\ Len(trace) = 2
    /\ trace[1].source = ptr_bef_evt_src_
    /\ trace[1].emb_id # NullHandle
    /\ trace[2].source \in UserSources
    /\ num_events_ = n0 + 2

\* C7: schedule_event on a disabled source returns a null handle and leaves
\* the FEL, the events, the clock, the counters and end_of_sim_ unchanged.
C7_DisabledScheduleDropped ==
    [][\A src \in UserSources, time \in Times :
          (~enabled[src] /\ schedule_event(src, time)) =>
              /\ lastOp'.h = NullHandle
              /\ UNCHANGED <<evt_list_, evt, nevt, sim_time_, last_evt_time_,
                             num_events_, num_usr_events_, end_of_sim_>>]_vars

\* schedule_event has been called on a disabled source while events were
\* queued.
C7_Witness ==
    /\ lastOp.op = "schedule_event" /\ lastOp.res = "dropped"
    /\ ~el_empty(evt_list_)

\* C8: schedule_event(source, t) on an enabled source adds exactly one event
\* to the FEL, with that source, scheduled_time = sim_time_ and fire_time =
\* max(t, sim_time_), changes no other event, and returns its handle; every
\* event has fire_time >= scheduled_time.
C8_ScheduleAddsOneEvent ==
    /\ [](\A h \in 1..nevt : evt[h].fire_time >= evt[h].scheduled_time)
    /\ [][\A src \in UserSources, time \in Times :
            (enabled[src] /\ schedule_event(src, time)) =>
                LET h == lastOp'.h IN
                /\ h # NullHandle
                /\ ~InList(evt_list_, h)
                /\ Occurrences(evt_list_', h) = 1
                /\ el_erase(evt_list_', h) = evt_list_
                /\ evt'[h] = [source |-> src, scheduled_time |-> sim_time_,
                              fire_time |-> Max(time, sim_time_)]
                /\ \A x \in Handles \ {h} : evt'[x] = evt[x]]_vars

\* schedule_event has been called with a past time and the event is queued
\* with the current clock as its fire time.
C8_Witness ==
    /\ lastOp.op = "schedule_event" /\ lastOp.res = "clamped"
    /\ sim_time_ > 0
    /\ InList(evt_list_, lastOp.h)
    /\ evt[lastOp.h].fire_time = sim_time_

Rescheduled(h) == hist[h].why = "moved" /\ hist[h].queued

\* C9 as stated: an event rescheduled while queued (enabled source, new time
\* not in the past and not its fire time) is fired: no run returns having
\* taken such an event out of the FEL without firing it.
C9_Original ==
    RunReturned => \A h \in Handles : ~(Rescheduled(h) /\ ~InList(evt_list_, h))

\* C9, amended: after such a reschedule_event(h, t) the event is in the FEL
\* exactly once with fire_time = t and the FEL holds the same events as
\* before; no event is ever in the FEL twice; an event fired on the strength
\* of that call is fired at time t, after every event that was queued for t
\* at the call and has stayed queued for t, and is not in the FEL while it is
\* fired unless it is rescheduled again.
C9_RescheduleMoves ==
    /\ [](\A h \in Handles : Occurrences(evt_list_, h) <= 1)
    /\ []((FiringFromFEL /\ cur.hist.why = "moved" /\ cur.hist.queued) =>
             /\ cur.fire_time = cur.hist.t
             /\ sim_time_ = cur.hist.t
             /\ cur.hist.ahead = {})
    /\ []((FiringFromFEL /\ hist[cur.id] = NoHist) =>
             ~InList(evt_list_, cur.id))
    /\ [][\A h \in 1..nevt, time \in Times :
            (/\ InList(evt_list_, h)
             /\ enabled[evt[h].source]
             /\ time >= sim_time_
             /\ ~essentially_equal(time, evt[h].fire_time)
             /\ reschedule_event(h, time)) =>
                /\ Occurrences(evt_list_', h) = 1
                /\ evt'[h].fire_time = time
                /\ evt'[h].fire_time # evt[h].fire_time
                /\ el_erase(evt_list_', h) = el_erase(evt_list_, h)
                /\ evt_list_'[Len(evt_list_')] = h]_vars

\* An event rescheduled while queued, to a time other events were already
\* queued for, is being fired.
C9_Witness ==
    /\ FiringFromFEL
    /\ cur.hist.why = "moved" /\ cur.hist.queued /\ cur.hist.had_ahead

C11_RescheduleNoop ==
    [][\A h \in 1..nevt, time \in Times :
          (/\ \/ ~enabled[evt[h].source]
              \/ (time < sim_time_ /\ ~(evt[h].fire_time > sim_time_))
              \/ essentially_equal(time, evt[h].fire_time)
           /\ reschedule_event(h, time)) =>
              UNCHANGED <<evt_list_, evt, nevt, pushOrder>>]_vars

\* reschedule_event has been called with the fire time the event already
\* has, on a queued event that is not the last one pushed.
C11_Witness ==
    /\ lastOp.op = "reschedule_event" /\ lastOp.res = "equal"
    /\ lastOp.queued
    /\ Len(evt_list_) >= 2
    /\ evt_list_[1] = lastOp.h

\* An event discarded at its pop has not been put into the FEL again by a
\* reschedule_event since.
StaysDiscarded(h) == hist[h].dropped /\ hist[h].t = -1

\* C12 as stated: an event whose source was disabled when it was popped is
\* never fired later.
C12_Original == FiringFromFEL => ~cur.hist.dropped

\* C12, amended: a pop that finds the event's source disabled invokes no
\* sink and no wrapper and leaves sim_time_, last_evt_time_, num_events_ and
\* num_usr_events_ unchanged; the event is removed from the FEL; it is in the
\* FEL again, and fired, only after a later reschedule_event on its handle.
C12_DiscardedWhenDisabled ==
    /\ [](\A h \in Handles : StaysDiscarded(h) => ~InList(evt_list_, h))
    /\ [](FiringFromFEL => ~(cur.hist.dropped /\ cur.hist.t = -1))
    /\ [][(/\ pc = "loop" /\ phase = "none" /\ ~el_empty(evt_list_)
           /\ ~enabled[evt[el_top(evt_list_, evt)].source]
           /\ advance) =>
              /\ phase' = "none" /\ cur' = NoCur /\ trace' = <<>>
              /\ UNCHANGED <<sim_time_, last_evt_time_, num_events_,
                             num_usr_events_>>
              /\ evt_list_' = el_erase(evt_list_, el_top(evt_list_, evt))
              /\ ~InList(evt_list_', el_top(evt_list_, evt))]_vars

\* An event has been discarded at its pop while a wrapper source has sinks
\* and another event is still queued.
C12_Witness ==
    /\ pc = "loop" /\ phase = "none"
    /\ \E h \in Handles : StaysDiscarded(h)
    /\ sinks # {}
    /\ ~el_empty(evt_list_)

\* The END-OF-SIMULATION event queued by stop_at_time is being fired.
FiringStopEvent == FiringFromFEL /\ cur.source = ptr_eos_evt_src_

EngineState == <<engineVars, envVars, statVars>>

\* C14: the invalid-argument operations fail with an error and leave the
\* whole engine state unchanged: stop_at_time(t) with t < sim_time_ raises an
\* error and queues no END_SIM event; remove_statistic of a statistic that is
\* not registered raises an error and leaves the registry unchanged.
C14_InvalidArgument ==
    /\ [][\A time \in Times :
            (time < sim_time_ /\ do_stop_at_time(time)) =>
                /\ lastOp'.op = "stop_at_time" /\ lastOp'.res = "error"
                /\ EngineState' = EngineState
                /\ \A y \in Handles :
                      InList(evt_list_', y) => InList(evt_list_, y)]_vars
    /\ [][\A s \in Statistics \cup {NullStat} :
            (s \notin DOMAIN mon_stats_ /\ remove_statistic(s)) =>
                /\ lastOp'.op = "remove_statistic" /\ lastOp'.res = "error"
                /\ EngineState' = EngineState]_vars

\* A sink has called stop_at_time with a past time and then remove_statistic
\* on a statistic that is not in the non-empty registry; both raised.
C14_Witness ==
    /\ lastOp.op = "remove_statistic" /\ lastOp.res = "error"
    /\ lastOp.s \in Statistics
    /\ lastOp.prev = <<"stop_at_time", "error">>
    /\ mon_stats_ # <<>>
    /\ sim_time_ > 0

\* C15: stop_now only sets end_of_sim_ to true: it fires no END_SIM event and
\* does not change the FEL, the clock or the counters; when a sink calls it
\* during a dispatch, the remaining sinks of the current event and its
\* AFTER_FIRE wrapper still run, and no further event is popped from the FEL
\* in that run.
C15_StopNow ==
    /\ [][stop_now_call =>
            /\ end_of_sim_'
            /\ UNCHANGED <<evt_list_, evt, nevt, sim_time_, last_evt_time_,
                           num_events_, num_usr_events_>>
            /\ UNCHANGED <<pc, phase, cur, trace, core>>]_vars
    /\ []((lastOp.op = "stop_now" /\ FiringFromFEL) =>
            /\ phase = "own"
            /\ ptr_aef_evt_src_ \in sinks => ENABLED fire_after
            /\ ptr_aef_evt_src_ \notin sinks => ENABLED fire_end)
    /\ [][(end_of_sim_ /\ pc # "idle") =>
            /\ end_of_sim_'
            /\ cur'.id # NullHandle => cur' = cur
            /\ \A h \in Handles : hist'[h].dropped => hist[h].dropped
            /\ evt_list_' # evt_list_ =>
                  \/ lastOp'.op \in {"schedule_event", "reschedule_event", "stop_at_time"}
                  \/ pc = "finalize_simulation" /\ evt_list_' = <<>>]_vars

\* A sink of an event popped from the FEL has called stop_now, the AFTER_FIRE
\* wrapper of that event is being fired, and an event is still queued.
C15_Witness ==
    /\ pc = "loop" /\ phase = "aft"
    /\ cur.source \in UserSources \cup SecondSources
    /\ end_of_sim_
    /\ mon_stats_ = <<>>
    /\ evt_list_ # <<>>

\* advance() calls monitor_statistics in this step: fire_next_event returns,
\* after the dispatch of the popped event or after discarding it.
MonitorStep ==
    /\ pc = "loop"
    /\ phase' = "none"
    /\ phase # "none" \/ evt_list_' # evt_list_
\* end_of_sim_ when monitor_statistics is entered.
EosAtMonitor == end_of_sim_ \/ (phase # "none" /\ cur.source = ptr_eos_evt_src_)
Short(s) == stat[s].enabled /\ ~stat[s].target_precision_reached
AllReached == DOMAIN mon_stats_ # {} /\ \A s \in DOMAIN mon_stats_ : ~Short(s)

\* C16: monitor_statistics sets end_of_sim_ to true if and only if the
\* registry is non-empty and no registered statistic is both enabled and
\* short of its target precision; with an empty registry it changes nothing;
\* it never sets end_of_sim_ back to false.
C16_MonitorEndOfSim ==
    [][MonitorStep =>
        /\ end_of_sim_' = (EosAtMonitor \/ AllReached)
        /\ DOMAIN mon_stats_ = {} => UNCHANGED statVars]_vars

\* monitor_statistics has just ended the run after the dispatch of a user
\* event: a statistic that is short of its precision is registered but
\* disabled, and an event is still queued.
C16_Witness ==
    /\ pc = "loop" /\ phase = "none" /\ end_of_sim_
    /\ trace # <<>> /\ trace[Len(trace)].source \in UserSources
    /\ evt_list_ # <<>>
    /\ \E s \in DOMAIN mon_stats_ :
          ~stat[s].enabled /\ ~stat[s].target_precision_reached

\* Every enabled registered statistic reports target_precision_reached.
EnabledReached ==
    \A s \in DOMAIN mon_stats_ :
        stat[s].enabled => stat[s].target_precision_reached
\* The loop of the run has ended: end_of_sim_ is set between two dispatch
\* cycles, or the run is in its finalization.
LoopEnded ==
    \/ pc = "loop" /\ phase = "none" /\ end_of_sim_
    \/ pc \in {"finalize_system", "finalize_simulation", "run_exit"}

\* C17 as stated, for any registry: the run ends at the first
\* monitor_statistics call at which every enabled registered statistic
\* reports target_precision_reached.
C17_Original == [][(MonitorStep /\ EnabledReached) => end_of_sim_']_vars

\* C17: with at least one statistic registered, the run ends at the first
\* monitor_statistics call at which every enabled registered statistic
\* reports target_precision_reached; no event is popped from the FEL after
\* that dispatch cycle and the events still queued are never fired: from
\* the end of the loop until run() returns no event of the FEL begins to fire,
\* and the next run begins with an empty FEL.
C17_PrecisionTermination ==
    /\ [][(MonitorStep /\ DOMAIN mon_stats_ # {} /\ EnabledReached)
            => end_of_sim_']_vars
    /\ [][(pc = "loop" /\ phase = "none" /\ end_of_sim_) =>
            (pc' = "finalize_system" /\ evt_list_' = evt_list_ /\ end_of_sim_')]_vars
    /\ [][LoopEnded =>
            /\ LoopEnded' \/ pc' = "idle"
            /\ cur'.id = NullHandle]_vars
    /\ [][pc = "prepare" => evt_list_' = <<>>]_vars

\* monitor_statistics has just ended the run after the dispatch of a user
\* event: every registered statistic is enabled and has reached its
\* precision, and an event is still queued.
C17_Witness ==
    /\ pc = "loop" /\ phase = "none" /\ end_of_sim_
    /\ trace # <<>> /\ trace[Len(trace)].source \in UserSources
    /\ evt_list_ # <<>>
    /\ DOMAIN mon_stats_ # {}
    /\ \A s \in DOMAIN mon_stats_ :
          stat[s].enabled /\ stat[s].target_precision_reached

\* monitor_statistics records the enter time of s in this step.
Records(s) == stat'[s].nrec = stat[s].nrec + 1

\* C18: for every registered statistic, monitor_statistics records
\* steady_state_enter_time := sim_time_ exactly when the statistic's latch is
\* false and the statistic reports steady_state_entered, and sets the latch;
\* the enter time is recorded at most once per registration, for every
\* statistic in the same call even when another statistic has not reached
\* its precision, and never for a statistic that had already entered steady
\* state when analyze_statistic registered it.
C18_SteadyStateLatch ==
    /\ [][MonitorStep =>
            /\ DOMAIN mon_stats_' = DOMAIN mon_stats_
            /\ \A s \in DOMAIN mon_stats_ :
                  IF ~mon_stats_[s] /\ stat[s].steady_state_entered
                  THEN /\ Records(s)
                       /\ mon_stats_'[s]
                       /\ stat'[s] = [stat[s] EXCEPT
                                         !.steady_state_enter_time = sim_time_',
                                         !.nrec = @ + 1]
                  ELSE /\ mon_stats_'[s] = mon_stats_[s]
                       /\ stat'[s] = stat[s]
            /\ \A s \in Statistics \ DOMAIN mon_stats_ : stat'[s] = stat[s]]_vars
    /\ [][\A s \in Statistics : Records(s) => (MonitorStep /\ s \in DOMAIN mon_stats_)]_vars
    /\ [](\A s \in Statistics :
            /\ stat[s].nrec <= 1
            /\ stat[s].reg_steady => stat[s].nrec = 0)

\* A monitor_statistics call has just recorded the enter time of one
\* registered statistic, at a positive time, while the other registered
\* statistic is enabled and short of its precision.
C18_Witness ==
    /\ pc = "loop" /\ phase = "none" /\ ~end_of_sim_ /\ sim_time_ > 0
    /\ DOMAIN mon_stats_ = Statistics
    /\ \E s \in Statistics :
          /\ stat[s].nrec = 1
          /\ stat[s].steady_state_enter_time = sim_time_
          /\ mon_stats_[s]
          /\ \E o \in Statistics \ {s} : Short(o) /\ stat[o].nrec = 0

\* This step is remove_statistic(s) called right after analyze_statistic(s).
AnalyzeThenRemove(s) ==
    /\ lastOp.op = "analyze_statistic" /\ lastOp.s = s
    /\ remove_statistic(s)

\* C19 as stated, for every registry state: analyze_statistic(s) followed by
\* remove_statistic(s) leaves the registry equal to what it was before the
\* two calls.
C19_Original ==
    [][\A s \in Statistics : AnalyzeThenRemove(s) => mon_stats_' = lastOp.reg]_vars

\* C19: for every statistic s that is not registered, analyze_statistic(s)
\* followed by remove_statistic(s) leaves the registry (the registered
\* statistics and their latch bits) equal to what it was before the two
\* calls; for a registered s the two calls leave the registry without s.
C19_AnalyzeRemove ==
    [][\A s \in Statistics :
         AnalyzeThenRemove(s) =>
            /\ lastOp'.res = "ok"
            /\ IF s \notin DOMAIN lastOp.reg
               THEN mon_stats_' = lastOp.reg
               ELSE mon_stats_' = [x \in DOMAIN lastOp.reg \ {s} |-> lastOp.reg[x]]]_vars

\* remove_statistic(s) has just undone an analyze_statistic(s) of a
\* statistic in steady state that was not registered, with another statistic
\* registered.
C19_Witness ==
    /\ lastOp.op = "remove_statistic" /\ lastOp.res = "ok"
    /\ lastOp.prev = <<"analyze_statistic", "ok">>
    /\ lastOp.s \notin DOMAIN lastOp.reg0
    /\ lastOp.reg # lastOp.reg0
    /\ lastOp.reg[lastOp.s]
    /\ mon_stats_ = lastOp.reg0
    /\ mon_stats_ # <<>>

\* C20: two successive calls of run() on the same engine, with the client
\* re-seeding the FEL identically and the same deterministic sinks and
\* statistics, show the same at corresponding points: the same events fired
\* at the same times with the same values of the clock, of the event
\* counters and of the steady-state recordings.
C20_IdenticalRuns ==
    runlog.obs # <<>> =>
        \A n \in 1..(MaxRuns - 1) :
            \A i \in 1..Len(runlog.obs[n + 1]) :
                /\ i <= Len(runlog.obs[n])
                /\ runlog.obs[n + 1][i] = runlog.obs[n][i]

\* What a step adds to the event counters: the dispatch of an event begins
\* (the event itself is counted), the sinks of a BEFORE_FIRE or AFTER_FIRE
\* wrapper return (the wrapper is counted).
DispatchBegins == phase = "none" /\ phase' # "none"
WrapperCounted ==
    \/ phase = "bef" /\ phase' = "own"
    \/ phase = "aft" /\ phase' = "none"
CountedUser ==
    IF DispatchBegins /\ cur'.source \notin BuiltinSources THEN 1 ELSE 0
CountedInternal ==
    (IF DispatchBegins /\ cur'.source \in BuiltinSources THEN 1 ELSE 0)
        + (IF WrapperCounted THEN 1 ELSE 0)
\* prepare_simulation resets the core state in this step.
ResetStep == pc = "prepare" /\ phase = "none"

\* C21: num_events = num_user_events + (fires of the built-in lifecycle
\* events + BEFORE_FIRE/AFTER_FIRE wrapper fires) at every dispatch-cycle
\* boundary: counted from the reset of a run, num_events grows by one with
\* every event and wrapper fired and num_user_events by one with every fired
\* event that is not of one of the six built-in sources; an event of a
\* built-in source never increments num_user_events.
C21_EventCounters ==
    [][LET e0 == IF ResetStep THEN 0 ELSE num_events_
           u0 == IF ResetStep THEN 0 ELSE num_usr_events_
       IN /\ num_events_' = e0 + CountedUser + CountedInternal
          /\ num_usr_events_' = u0 + CountedUser]_vars

\* monitor_statistics, were it run now, would change the registry or
\* end_of_sim_.
MonitorWouldAct ==
    LET m == monitor_statistics(mon_stats_, stat, sim_time_, end_of_sim_)
    IN m.mon # mon_stats_ \/ m.stat # stat \/ m.end_of_sim # end_of_sim_

\* C22: advance() called with end_of_sim_ true or with an empty FEL does
\* nothing: it pops nothing, fires nothing, does not run monitor_statistics
\* and leaves the clock, last_evt_time_, the counters, the FEL, the registry
\* and end_of_sim_ unchanged; on a constructed engine end_of_sim_ is true
\* until run() is called, so this covers every advance() before run().
C22_AdvanceNoop ==
    /\ []((pc = "idle" /\ nruns = 0) => end_of_sim_)
    /\ [][(advance_call /\ (end_of_sim_ \/ el_empty(evt_list_))) =>
            /\ UNCHANGED <<evt_list_, evt, nevt, sim_time_, last_evt_time_,
                           num_events_, num_usr_events_, end_of_sim_>>
            /\ UNCHANGED <<mon_stats_, stat>>
            /\ UNCHANGED <<pc, phase, cur, trace, core, enabled, sinks>>]_vars

\* A sink has just called advance() with an empty FEL in a run that has not
\* ended, while a registered statistic has entered steady state and its
\* latch is still false: monitor_statistics would have set it.
C22_Witness ==
    /\ lastOp.op = "advance"
    /\ ~end_of_sim_ /\ el_empty(evt_list_)
    /\ MonitorWouldAct

\* fire_next_event pops an event in this step.
PopStep ==
    /\ pc = "loop" /\ phase = "none"
    /\ evt_list_ # <<>>
    /\ evt_list_' = el_pop(evt_list_, evt)

\* C23: every event in the FEL has fire_time >= sim_time_ in every reachable
\* state, whatever schedule_event, reschedule_event, stop_at_time and
\* advance calls the client and the sinks have made, also for events whose
\* source was disabled after they were queued; so the event fire_next_event
\* pops has fire_time >= sim_time_ and its assertion does not fail.
C23_FireTimeNotPast ==
    /\ [](\A i \in 1..Len(evt_list_) : evt[evt_list_[i]].fire_time >= sim_time_)
    /\ [][PopStep => evt[el_top(evt_list_, evt)].fire_time >= sim_time_]_vars

\* While an event is dispatched at a positive time, an event queued for that
\* very time is in the FEL and its source has been disabled.
C23_Witness ==
    /\ FiringFromFEL /\ phase = "own" /\ sim_time_ > 0
    /\ \E h \in Handles :
          /\ InList(evt_list_, h)
          /\ ~enabled[evt[h].source]
          /\ evt[h].fire_time = sim_time_

\* The statistic is as its reset() leaves it.
IsReset(s) ==
    /\ ~stat[s].steady_state_entered
    /\ ~stat[s].target_precision_reached
    /\ stat[s].steady_state_enter_time = -1

\* C24: in every run, the first as well as a later one, prepare_simulation
\* has reset the whole core state when BEGIN_SIM is fired: sim_time_ = 0,
\* last_evt_time_ = 0, num_events_ = 0 (n0, the count with which the dispatch
\* of BEGIN_SIM begins), num_usr_events_ = 0, the FEL empty, end_of_sim_
\* false, and every registered statistic reset.
C24_PrepareResets ==
    [][ResetStep =>
        /\ sim_time_' = 0
        /\ last_evt_time_' = 0
        /\ n0' = 0
        /\ num_usr_events_' = 0
        /\ evt_list_' = <<>>
        /\ ~end_of_sim_'
        /\ \A s \in DOMAIN mon_stats_' : IsReset(s)']_vars

\* An immediate event is being fired, and the source each step of the run
\* strategy fires.
ImmediateFiring == phase # "none" /\ cur.id = NullHandle
ImmediateSource ==
    CASE pc = "prepare" -> ptr_bos_evt_src_
      [] pc = "initialize" -> ptr_si_evt_src_
      [] pc = "finalize_system" -> ptr_sf_evt_src_
      [] pc = "finalize_simulation" -> ptr_eos_evt_src_
      [] OTHER -> "none"

C26_EndSimOnce == neos <= 1 /\ (RunReturned => neos = 1)

\* C27 as stated: reschedule_event never changes the number of events in
\* the FEL; called with the handle of an event that is no longer queued it
\* leaves the FEL unchanged.
C27_Original ==
    [][\A h \in 1..nevt, time \in Times :
          reschedule_event(h, time) =>
              /\ Len(evt_list_') = Len(evt_list_)
              /\ ~InList(evt_list_, h) => evt_list_' = evt_list_]_vars

\* C27, amended: reschedule_event on a queued event never changes the
\* number of events in the FEL, and no event is ever in the FEL twice; on
\* an event that is not queued (popped and fired, or discarded) it leaves
\* the FEL unchanged when it returns early and otherwise puts the event
\* into the FEL again, at its end, with the new fire time. An event enters
\* the FEL only when it is created or by such a call, so an event fires a
\* second time only after a reschedule_event on its handle while it was not
\* queued.
C27_RescheduleCount ==
    /\ [](\A h \in Handles : Occurrences(evt_list_, h) <= 1)
    /\ [][\A h \in 1..nevt, time \in Times :
            reschedule_event(h, time) =>
                /\ nevt' = nevt
                /\ InList(evt_list_, h) => Len(evt_list_') = Len(evt_list_)
                /\ ~InList(evt_list_, h) =>
                      IF reschedule_check(enabled[evt[h].source],
                                          evt[h].fire_time, time, sim_time_).move
                      THEN /\ evt_list_' = Append(evt_list_, h)
                           /\ evt'[h].fire_time = Max(time, sim_time_)
                      ELSE evt_list_' = evt_list_ /\ evt' = evt]_vars
    /\ [][\A h \in Handles :
            (~InList(evt_list_, h) /\ InList(evt_list_', h)) =>
                /\ lastOp'.h = h
                /\ \/ lastOp'.op \in {"schedule_event", "stop_at_time"} /\ h = nevt'
                   \/ lastOp'.op = "reschedule_event" /\ ~lastOp'.queued]_vars

\* An event that was popped and fired, and then rescheduled by a sink while
\* it was not queued, is being fired again.
C27_Witness ==
    /\ FiringFromFEL
    /\ cur.hist.t # -1 /\ ~cur.hist.queued /\ ~cur.hist.dropped
    /\ cur.fire_time = cur.hist.t

\* The dispatch loop of the run starts with this step.
LoopStarts == pc = "initialize" /\ pc' = "loop"

\* C28: in every run, the first as well as a later one with the same
\* registered statistics, the latch bit of every registered statistic is
\* false when the dispatch loop of the run starts, and every registered
\* statistic that has entered steady state in the run has got its
\* steady_state_enter_time recorded in that run by the end of the dispatch
\* cycle.
C28_LatchPerRun ==
    /\ [][LoopStarts => \A s \in DOMAIN mon_stats_' : ~mon_stats_'[s]]_vars
    /\ []((pc = "loop" /\ phase = "none") =>
            \A s \in DOMAIN mon_stats_ :
                stat[s].steady_state_entered =>
                    stat[s].steady_state_enter_time # -1)

\* advance() is entered with end_of_sim_ false and a non-empty FEL.
AdvanceRuns == pc = "loop" /\ phase = "none" /\ ~end_of_sim_ /\ evt_list_ # <<>>

\* C29: each advance() executed with end_of_sim_ false and a non-empty FEL
\* removes exactly one event from the FEL, one of least fire time, whether
\* it fires the event or discards it; when no sink schedules or reschedules
\* in the loop no other step of the loop changes the FEL, so the loop makes
\* at most as many advance() calls as the FEL had events, and every run
\* that has entered its loop reaches finalize_simulation.
C29_AdvanceDrains ==
    /\ [][(AdvanceRuns /\ advance) =>
            \E h \in Handles :
                /\ InList(evt_list_, h)
                /\ \A x \in Handles :
                      InList(evt_list_, x) => evt[h].fire_time <= evt[x].fire_time
                /\ evt_list_' = el_erase(evt_list_, h)
                /\ Len(evt_list_') = Len(evt_list_) - 1
                /\ IF enabled[evt[h].source]
                   THEN cur'.id = h /\ phase' = "own"
                   ELSE hist'[h].dropped /\ phase' = "none" /\ cur' = NoCur]_vars
    /\ [][(pc = "loop" /\ ~AdvanceRuns) => evt_list_' = evt_list_]_vars
    /\ [][AdvanceRuns => Len(evt_list_') < Len(evt_list_)]_vars
    /\ (pc = "loop") ~> (pc = "finalize_simulation")

\* The loop of a run has ended with an empty FEL after two advance() calls
\* on the two events the FEL held: one event was fired, the other discarded.
C29_Witness ==
    /\ pc = "finalize_system" /\ phase = "none"
    /\ ~end_of_sim_ /\ evt_list_ = <<>>
    /\ nevt = 2
    /\ \E h \in 1..nevt : hist[h].dropped
    /\ \E h \in 1..nevt : ~hist[h].dropped
====
